---- MODULE Spec2Model ----
(***************************************************************************)
(* HRMS Lite (backend/main.py): the employees and attendance tables of the *)
(* SQLite store and the four mutating request handlers, statement by       *)
(* statement.                                                              *)
(*                                                                         *)
(* Store semantics the handlers rely on (sqlite3 module defaults):         *)
(*  - a SELECT runs outside any transaction and reads the committed        *)
(*    tables; its lock is gone when fetchone() returns;                    *)
(*  - the first INSERT/UPDATE/DELETE of a connection implicitly opens a    *)
(*    transaction and takes the database's single write lock, which is     *)
(*    held until commit(), or until the connection object is destroyed;    *)
(*    the pending rows are invisible to every other connection;            *)
(*  - a writer that finds the lock taken waits, and fails with             *)
(*    OperationalError("database is locked") when the wait times out;      *)
(*  - PRIMARY KEY / UNIQUE are enforced, FOREIGN KEY is not: no handler    *)
(*    issues PRAGMA foreign_keys = ON and SQLite's default is OFF;         *)
(*  - SQL LOWER() folds ASCII letters only, Python's str.lower() folds     *)
(*    every cased letter.                                                  *)
(***************************************************************************)
EXTENDS Integers, FiniteSets, Sequences, TLC

\* Number of requests served in one behaviour.
MaxReq == 2

Req == 1 .. MaxReq

\* uuid4() values are drawn in order. The ids a client can name: those
\* drawn so far, and 0 for any string that is no id (all of them select no row).
TargetIds(next) == 0 .. (next - 1)

\* Validated request fields (EmployeeCreate / AttendanceCreate).
EmployeeIds == {"EMP001", "EMP002"}

Names == {"Jane Doe"}

\* "U+00C9@x.com" stands for the address whose first letter is the
\* non-ASCII capital E-acute, "U+00E9@x.com" for its lower-case form.
Emails == {"A@x.com", "U+00C9@x.com"}

Departments == {"HR"}

Dates == {"2024-01-15", "2024-01-16"}

Statuses == {"Present", "Absent"}

VARIABLES
    employees,      \* committed rows of table employees
    attendance,     \* committed rows of table attendance
    txEmployees,    \* the write-lock holder's view of employees
    txAttendance,   \* the write-lock holder's view of attendance
    writer,         \* {} or {r}: the request whose connection holds the write lock
    pc,             \* each request's position in its handler
    req,            \* each request's validated payload
    existing,       \* mark_attendance: the id fetched by the (employee_id, date) lookup
    newId,          \* the uuid4 drawn by the handler
    createdAt,      \* the datetime.now() read by the handler
    result,         \* the response of a completed request
    connOpen,       \* whether the request's connection is still open
    nextId,         \* next unused uuid
    clock           \* next datetime.now() value

vars == <<employees, attendance, txEmployees, txAttendance, writer, pc, req,
          existing, newId, createdAt, result, connOpen, nextId, clock>>

store == <<employees, attendance>>

tx == <<txEmployees, txAttendance>>

locals == <<existing, newId, createdAt>>

----------------------------------------------------------------------------
\* Case conversions.

\* str.lower(): every cased letter.
PyLower(s) ==
    CASE s = "A@x.com" -> "a@x.com"
      [] s = "U+00C9@x.com" -> "U+00E9@x.com"
      [] OTHER -> s

\* SQL LOWER(): ASCII letters only.
SqlLower(s) ==
    CASE s = "A@x.com" -> "a@x.com"
      [] OTHER -> s

----------------------------------------------------------------------------
\* Payloads. Field id is the internal id a request names: the path parameter of
\* the two deletes, AttendanceCreate.employee_id of mark_attendance.

NoPayload ==
    [kind |-> "none", employee_id |-> "", full_name |-> "", email |-> "",
     department |-> "", id |-> 0, date |-> "", status |-> ""]

CreatePayloads ==
    [kind : {"create_employee"}, employee_id : EmployeeIds, full_name : Names,
     email : Emails, department : Departments, id : {0}, date : {""}, status : {""}]

MarkPayloads ==
    [kind : {"mark_attendance"}, employee_id : {""}, full_name : {""},
     email : {""}, department : {""}, id : TargetIds(nextId), date : Dates,
     status : Statuses]

DeleteEmployeePayloads ==
    [kind : {"delete_employee"}, employee_id : {""}, full_name : {""},
     email : {""}, department : {""}, id : TargetIds(nextId), date : {""},
     status : {""}]

DeleteAttendancePayloads ==
    [kind : {"delete_attendance"}, employee_id : {""}, full_name : {""},
     email : {""}, department : {""}, id : TargetIds(nextId), date : {""},
     status : {""}]

NoResult == [code |-> 0, detail |-> "", id |-> 0]

----------------------------------------------------------------------------
\* Statements.

\* Mutant: the WHERE clause is lost.
SelectEmployeeById_NoWhere(emps, id) == emps

\* SELECT id FROM employees WHERE id = ?
SelectEmployeeById(emps, id) == {e \in emps : e.id = id}

\* SELECT id FROM employees WHERE employee_id = ?
SelectEmployeeByEmployeeId(emps, employee_id) ==
    {e \in emps : e.employee_id = employee_id}

\* SELECT id FROM employees WHERE LOWER(email) = LOWER(?)
SelectEmployeeByEmail(emps, email) ==
    {e \in emps : SqlLower(e.email) = SqlLower(email)}

\* SELECT id FROM attendance WHERE employee_id = ? AND date = ?
SelectAttendanceByKey(att, employee_id, date) ==
    {a \in att : a.employee_id = employee_id /\ a.date = date}

\* SELECT id FROM attendance WHERE id = ?
SelectAttendanceById(att, id) == {a \in att : a.id = id}

\* Mutant: a schema with the primary key alone.
EmployeesConstraints_NoUnique(emps, row) == \A e \in emps : e.id # row.id

\* Table employees: id PRIMARY KEY, employee_id UNIQUE, email UNIQUE.
EmployeesConstraintsOk(emps, row) ==
    \A e \in emps :
        /\ e.id # row.id
        /\ e.employee_id # row.employee_id
        /\ e.email # row.email

\* Mutant: a schema without UNIQUE(employee_id, date).
AttendanceConstraints_NoUnique(att, row) ==
    /\ row.status \in {"Present", "Absent"}
    /\ \A a \in att : a.id # row.id

\* Table attendance: id PRIMARY KEY, CHECK(status IN ...), UNIQUE(employee_id, date).
AttendanceConstraintsOk(att, row) ==
    /\ row.status \in {"Present", "Absent"}
    /\ \A a \in att :
        /\ a.id # row.id
        /\ ~(a.employee_id = row.employee_id /\ a.date = row.date)

\* Mutant: the email is stored as received.
EmployeeRow_EmailAsGiven(id, p, created_at) ==
    [id |-> id, employee_id |-> p.employee_id, full_name |-> p.full_name,
     email |-> p.email, department |-> p.department, created_at |-> created_at]

\* The row create_employee inserts: email lower-cased by str.lower().
EmployeeRow(id, p, created_at) ==
    [id |-> id, employee_id |-> p.employee_id, full_name |-> p.full_name,
     email |-> PyLower(p.email), department |-> p.department,
     created_at |-> created_at]

\* The row mark_attendance inserts.
AttendanceRow(id, p, created_at) ==
    [id |-> id, employee_id |-> p.id, date |-> p.date, status |-> p.status,
     created_at |-> created_at]

\* Mutant: the UPDATE sets the status alone.
UpdateAttendance_StatusOnly(att, id, status, created_at) ==
    {IF a.id = id THEN [a EXCEPT !.status = status] ELSE a : a \in att}

\* UPDATE attendance SET status = ?, created_at = ? WHERE id = ?
UpdateAttendance(att, id, status, created_at) ==
    {IF a.id = id
        THEN [a EXCEPT !.status = status, !.created_at = created_at]
        ELSE a : a \in att}

\* DELETE FROM attendance WHERE employee_id = ?
DeleteAttendanceOfEmployee(att, employee_id) ==
    {a \in att : a.employee_id # employee_id}

\* DELETE FROM employees WHERE id = ?
DeleteEmployeeById(emps, id) == {e \in emps : e.id # id}

\* DELETE FROM attendance WHERE id = ?
DeleteAttendanceById(att, id) == {a \in att : a.id # id}

----------------------------------------------------------------------------
\* Read-only handlers, as functions of the committed tables. ORDER BY arranges
\* the rows and is not modelled: the results are sets of rows.

\* SUM(CASE WHEN a.status = ? THEN 1 ELSE 0 END) over the LEFT JOIN, per employee.
Days(att, e, status) ==
    Cardinality({a \in att : a.employee_id = e.id /\ a.status = status})

\* get_employees: every employee with present_days and absent_days.
GetEmployees(emps, att) ==
    {[id |-> e.id, employee_id |-> e.employee_id, full_name |-> e.full_name,
      email |-> e.email, department |-> e.department, created_at |-> e.created_at,
      present_days |-> Days(att, e, "Present"),
      absent_days |-> Days(att, e, "Absent")] : e \in emps}

\* get_attendance: a filter that is absent (-1 for the id, "" for the date) is
\* not applied.
GetAttendance(att, employee_id, date) ==
    {a \in att : /\ (employee_id # -1 => a.employee_id = employee_id)
                 /\ (date # "" => a.date = date)}

\* get_dashboard_stats
GetDashboardStats(emps, att, today) ==
    [total_employees |-> Cardinality(emps),
     total_departments |-> Cardinality({e.department : e \in emps}),
     present_today |-> Cardinality({a \in att : a.date = today /\ a.status = "Present"}),
     absent_today |-> Cardinality({a \in att : a.date = today /\ a.status = "Absent"}),
     total_present |-> Cardinality({a \in att : a.status = "Present"}),
     total_absent |-> Cardinality({a \in att : a.status = "Absent"}),
     departments |-> {[name |-> d, count |-> Cardinality({e \in emps : e.department = d})] :
                        d \in {e.department : e \in emps}}]

----------------------------------------------------------------------------
\* init_db creates the tables only if the database file has none: the file is
\* new, or it is left by an earlier run, here one that created one employee.
InitialEmployees ==
    {{}} \cup {{EmployeeRow(1, p, 1)} : p \in CreatePayloads}

Init ==
    /\ employees \in InitialEmployees
    /\ attendance = {}
    /\ txEmployees = employees
    /\ txAttendance = {}
    /\ writer = {}
    /\ pc = [r \in Req |-> "idle"]
    /\ req = [r \in Req |-> NoPayload]
    /\ existing = [r \in Req |-> {}]
    /\ newId = [r \in Req |-> 0]
    /\ createdAt = [r \in Req |-> 0]
    /\ result = [r \in Req |-> NoResult]
    /\ connOpen = [r \in Req |-> FALSE]
    /\ nextId = 2
    /\ clock = 2

\* Requests are taken from the slots in order.
CanStart(r) == pc[r] = "idle" /\ (IF r = 1 THEN TRUE ELSE pc[r - 1] # "idle")

\* The handler's frame is gone once it has returned or raised.
ClearLocals(r) ==
    /\ existing' = [existing EXCEPT ![r] = {}]
    /\ newId' = [newId EXCEPT ![r] = 0]
    /\ createdAt' = [createdAt EXCEPT ![r] = 0]

\* conn.close(); raise HTTPException(status_code, detail)
HttpError(r, code, detail) ==
    /\ pc' = [pc EXCEPT ![r] = "done"]
    /\ result' = [result EXCEPT ![r] = [code |-> code, detail |-> detail, id |-> 0]]
    /\ connOpen' = [connOpen EXCEPT ![r] = FALSE]
    /\ ClearLocals(r)

\* execute() raises sqlite3.Error: no handler catches it, the framework answers
\* 500 and conn.close() is never reached. The transaction the statement opened
\* stays open, with the write lock if the statement had taken it.
StoreError(r, detail, tookLock) ==
    /\ pc' = [pc EXCEPT ![r] = "done"]
    /\ result' = [result EXCEPT ![r] = [code |-> 500, detail |-> detail, id |-> 0]]
    /\ writer' = IF tookLock THEN {r} ELSE writer
    /\ ClearLocals(r)
    /\ UNCHANGED <<store, tx, connOpen, req, nextId, clock>>

\* Another connection holds the write lock.
Locked(r) == writer # {} /\ writer # {r}

\* conn.commit(); conn.close(); return
Commit(r, res) ==
    /\ employees' = txEmployees
    /\ attendance' = txAttendance
    /\ writer' = {}
    /\ connOpen' = [connOpen EXCEPT ![r] = FALSE]
    /\ pc' = [pc EXCEPT ![r] = "done"]
    /\ result' = [result EXCEPT ![r] = res]
    /\ ClearLocals(r)
    /\ UNCHANGED <<tx, req, nextId, clock>>

----------------------------------------------------------------------------
\* create_employee

CreateCheckEmployeeId(r) ==
    /\ CanStart(r)
    /\ \E p \in CreatePayloads :
        /\ req' = [req EXCEPT ![r] = p]
        /\ IF SelectEmployeeByEmployeeId(employees, p.employee_id) # {}
              THEN HttpError(r, 400, "An employee with this Employee ID already exists")
              ELSE /\ pc' = [pc EXCEPT ![r] = "c_email"]
                   /\ connOpen' = [connOpen EXCEPT ![r] = TRUE]
                   /\ UNCHANGED <<result, locals>>
    /\ UNCHANGED <<store, tx, writer, nextId, clock>>

CreateCheckEmail(r) ==
    /\ pc[r] = "c_email"
    /\ IF SelectEmployeeByEmail(employees, req[r].email) # {}
          THEN /\ HttpError(r, 400, "An employee with this email already exists")
               /\ UNCHANGED <<nextId, clock>>
          ELSE /\ newId' = [newId EXCEPT ![r] = nextId]
               /\ nextId' = nextId + 1
               /\ createdAt' = [createdAt EXCEPT ![r] = clock]
               /\ clock' = clock + 1
               /\ pc' = [pc EXCEPT ![r] = "c_insert"]
               /\ UNCHANGED <<result, connOpen, existing>>
    /\ UNCHANGED <<store, tx, writer, req>>

CreateInsert(r) ==
    /\ pc[r] = "c_insert"
    /\ LET row == EmployeeRow(newId[r], req[r], createdAt[r]) IN
       IF Locked(r)
          THEN StoreError(r, "database is locked", FALSE)
          ELSE IF ~EmployeesConstraintsOk(txEmployees, row)
                  THEN StoreError(r, "UNIQUE constraint failed: employees", TRUE)
                  ELSE /\ txEmployees' = txEmployees \cup {row}
                       /\ writer' = {r}
                       /\ pc' = [pc EXCEPT ![r] = "c_commit"]
                       /\ UNCHANGED <<store, txAttendance, req, locals, result,
                                      connOpen, nextId, clock>>

CreateCommit(r) ==
    /\ pc[r] = "c_commit"
    /\ Commit(r, [code |-> 201, detail |-> "", id |-> newId[r]])

----------------------------------------------------------------------------
\* delete_employee

DeleteEmployeeCheck(r) ==
    /\ CanStart(r)
    /\ \E p \in DeleteEmployeePayloads :
        /\ req' = [req EXCEPT ![r] = p]
        /\ IF SelectEmployeeById(employees, p.id) = {}
              THEN HttpError(r, 404, "Employee not found")
              ELSE /\ pc' = [pc EXCEPT ![r] = "d_del_att"]
                   /\ connOpen' = [connOpen EXCEPT ![r] = TRUE]
                   /\ UNCHANGED <<result, locals>>
    /\ UNCHANGED <<store, tx, writer, nextId, clock>>

\* Mutant: the first DELETE is committed on its own (autocommit).
DeleteEmployeeAttendance_Autocommit(r) ==
    /\ pc[r] = "d_del_att"
    /\ IF Locked(r)
          THEN StoreError(r, "database is locked", FALSE)
          ELSE /\ attendance' = DeleteAttendanceOfEmployee(attendance, req[r].id)
               /\ txAttendance' = attendance'
               /\ pc' = [pc EXCEPT ![r] = "d_del_emp"]
               /\ UNCHANGED <<employees, txEmployees, writer, req, locals, result,
                              connOpen, nextId, clock>>

DeleteEmployeeAttendance(r) ==
    /\ pc[r] = "d_del_att"
    /\ IF Locked(r)
          THEN StoreError(r, "database is locked", FALSE)
          ELSE /\ txAttendance' = DeleteAttendanceOfEmployee(txAttendance, req[r].id)
               /\ writer' = {r}
               /\ pc' = [pc EXCEPT ![r] = "d_del_emp"]
               /\ UNCHANGED <<store, txEmployees, req, locals, result, connOpen,
                              nextId, clock>>

DeleteEmployeeRow(r) ==
    /\ pc[r] = "d_del_emp"
    /\ txEmployees' = DeleteEmployeeById(txEmployees, req[r].id)
    /\ pc' = [pc EXCEPT ![r] = "d_commit"]
    /\ UNCHANGED <<store, txAttendance, writer, req, locals, result, connOpen,
                   nextId, clock>>

DeleteEmployeeCommit(r) ==
    /\ pc[r] = "d_commit"
    /\ Commit(r, [code |-> 204, detail |-> "", id |-> 0])

----------------------------------------------------------------------------
\* mark_attendance

MarkCheckEmployee(r) ==
    /\ CanStart(r)
    /\ \E p \in MarkPayloads :
        /\ req' = [req EXCEPT ![r] = p]
        /\ IF SelectEmployeeById(employees, p.id) = {}
              THEN HttpError(r, 404, "Employee not found")
              ELSE /\ pc' = [pc EXCEPT ![r] = "m_existing"]
                   /\ connOpen' = [connOpen EXCEPT ![r] = TRUE]
                   /\ UNCHANGED <<result, locals>>
    /\ UNCHANGED <<store, tx, writer, nextId, clock>>

\* existing = cursor.fetchone(); created_at = now(); a uuid4 when there is none.
MarkCheckExisting(r) ==
    /\ pc[r] = "m_existing"
    /\ LET found == SelectAttendanceByKey(attendance, req[r].id, req[r].date) IN
       IF found # {}
          THEN /\ \E a \in found : existing' = [existing EXCEPT ![r] = {a.id}]
               /\ UNCHANGED <<newId, nextId>>
          ELSE /\ newId' = [newId EXCEPT ![r] = nextId]
               /\ nextId' = nextId + 1
               /\ UNCHANGED existing
    /\ createdAt' = [createdAt EXCEPT ![r] = clock]
    /\ clock' = clock + 1
    /\ pc' = [pc EXCEPT ![r] = "m_write"]
    /\ UNCHANGED <<store, tx, writer, req, result, connOpen>>

MarkWrite(r) ==
    /\ pc[r] = "m_write"
    /\ LET row == AttendanceRow(newId[r], req[r], createdAt[r]) IN
       IF Locked(r)
          THEN StoreError(r, "database is locked", FALSE)
          ELSE IF existing[r] # {}
                  THEN /\ \E id \in existing[r] :
                            txAttendance' = UpdateAttendance(txAttendance, id,
                                                req[r].status, createdAt[r])
                       /\ writer' = {r}
                       /\ pc' = [pc EXCEPT ![r] = "m_commit"]
                       /\ UNCHANGED <<store, txEmployees, req, locals, result,
                                      connOpen, nextId, clock>>
                  ELSE IF ~AttendanceConstraintsOk(txAttendance, row)
                          THEN StoreError(r, "UNIQUE constraint failed: attendance", TRUE)
                          ELSE /\ txAttendance' = txAttendance \cup {row}
                               /\ writer' = {r}
                               /\ pc' = [pc EXCEPT ![r] = "m_commit"]
                               /\ UNCHANGED <<store, txEmployees, req, locals,
                                              result, connOpen, nextId, clock>>

\* record_id is existing["id"] or the new uuid.
RecordId(r) == IF existing[r] # {} THEN CHOOSE id \in existing[r] : TRUE ELSE newId[r]

MarkCommit(r) ==
    /\ pc[r] = "m_commit"
    /\ Commit(r, [code |-> 201, detail |-> "", id |-> RecordId(r)])

----------------------------------------------------------------------------
\* delete_attendance

DeleteAttendanceCheck(r) ==
    /\ CanStart(r)
    /\ \E p \in DeleteAttendancePayloads :
        /\ req' = [req EXCEPT ![r] = p]
        /\ IF SelectAttendanceById(attendance, p.id) = {}
              THEN HttpError(r, 404, "Attendance record not found")
              ELSE /\ pc' = [pc EXCEPT ![r] = "a_delete"]
                   /\ connOpen' = [connOpen EXCEPT ![r] = TRUE]
                   /\ UNCHANGED <<result, locals>>
    /\ UNCHANGED <<store, tx, writer, nextId, clock>>

DeleteAttendanceDelete(r) ==
    /\ pc[r] = "a_delete"
    /\ IF Locked(r)
          THEN StoreError(r, "database is locked", FALSE)
          ELSE /\ txAttendance' = DeleteAttendanceById(txAttendance, req[r].id)
               /\ writer' = {r}
               /\ pc' = [pc EXCEPT ![r] = "a_commit"]
               /\ UNCHANGED <<store, txEmployees, req, locals, result, connOpen,
                              nextId, clock>>

DeleteAttendanceCommit(r) ==
    /\ pc[r] = "a_commit"
    /\ Commit(r, [code |-> 204, detail |-> "", id |-> 0])

----------------------------------------------------------------------------
\* The connection object of a handler that raised a store error is destroyed
\* some time after the response: its transaction is rolled back, its lock freed.
Finalize(r) ==
    /\ pc[r] = "done"
    /\ connOpen[r]
    /\ connOpen' = [connOpen EXCEPT ![r] = FALSE]
    /\ IF writer = {r}
          THEN /\ writer' = {}
               /\ txEmployees' = employees
               /\ txAttendance' = attendance
          ELSE UNCHANGED <<writer, tx>>
    /\ UNCHANGED <<store, pc, req, locals, result, nextId, clock>>

Step(r) ==
    \/ CreateCheckEmployeeId(r)
    \/ CreateCheckEmail(r)
    \/ CreateInsert(r)
    \/ CreateCommit(r)
    \/ DeleteEmployeeCheck(r)
    \/ DeleteEmployeeAttendance(r)
    \/ DeleteEmployeeRow(r)
    \/ DeleteEmployeeCommit(r)
    \/ MarkCheckEmployee(r)
    \/ MarkCheckExisting(r)
    \/ MarkWrite(r)
    \/ MarkCommit(r)
    \/ DeleteAttendanceCheck(r)
    \/ DeleteAttendanceDelete(r)
    \/ DeleteAttendanceCommit(r)
    \/ Finalize(r)

\* Requests of several server processes on one database file: any interleaving
\* of the handlers' statements.
Next == \E r \in Req : Step(r)

Spec == Init /\ [][Next]_vars

\* One request at a time: a request starts only when every earlier one has
\* completed and released its connection.
Quiescent(r) ==
    \A q \in Req \ {r} : pc[q] = "idle" \/ (pc[q] = "done" /\ ~connOpen[q])

NextSeq ==
    \E r \in Req :
        \/ Quiescent(r) /\ CreateCheckEmployeeId(r)
        \/ Quiescent(r) /\ CreateCheckEmail(r)
        \/ Quiescent(r) /\ CreateInsert(r)
        \/ Quiescent(r) /\ CreateCommit(r)
        \/ Quiescent(r) /\ DeleteEmployeeCheck(r)
        \/ Quiescent(r) /\ DeleteEmployeeAttendance(r)
        \/ Quiescent(r) /\ DeleteEmployeeRow(r)
        \/ Quiescent(r) /\ DeleteEmployeeCommit(r)
        \/ Quiescent(r) /\ MarkCheckEmployee(r)
        \/ Quiescent(r) /\ MarkCheckExisting(r)
        \/ Quiescent(r) /\ MarkWrite(r)
        \/ Quiescent(r) /\ MarkCommit(r)
        \/ Quiescent(r) /\ DeleteAttendanceCheck(r)
        \/ Quiescent(r) /\ DeleteAttendanceDelete(r)
        \/ Quiescent(r) /\ DeleteAttendanceCommit(r)
        \/ Quiescent(r) /\ Finalize(r)

SpecSeq == Init /\ [][NextSeq]_vars

----------------------------------------------------------------------------
\* Properties.

\* r takes a step of its handler.
Moves(r) == pc'[r] # pc[r]

SameKey(a, b) == a.employee_id = b.employee_id /\ a.date = b.date

\* Equality of two addresses ignoring letter case.
EqualIgnoringCase(a, b) == PyLower(a) = PyLower(b)

RECURSIVE SumDays(_, _)
\* Sum of present_days (or absent_days) over the rows of the employee list.
SumDays(rows, field) ==
    IF rows = {} THEN 0
    ELSE LET x == CHOOSE y \in rows : TRUE
         IN x[field] + SumDays(rows \ {x}, field)

\* C1: in every reachable state there is at most one attendance record for any
\* (employee_id, date) pair.
C1_OneRecordPerEmployeeAndDate ==
    \A a, b \in attendance : SameKey(a, b) => a = b

\* C1 witness: a mark for a key lost the race to another mark for the same key,
\* whose record is in the table.
C1_Witness ==
    \E r \in Req :
        /\ pc[r] = "done"
        /\ req[r].kind = "mark_attendance"
        /\ result[r] = [code |-> 500, detail |-> "UNIQUE constraint failed: attendance",
                        id |-> 0]
        /\ SelectAttendanceByKey(attendance, req[r].id, req[r].date) # {}

\* C2: served alone, a mark for an existing employee E and date D whose record
\* exists overwrites status and created_at of that record, keeps its id and the
\* number of records, and returns that id; with no record for (E, D) it inserts
\* exactly one record, under an id no other row uses, and returns it.
C2_MarkUpserts ==
    [][\A r \in Req :
        /\ (pc[r] \in {"m_existing", "m_write"} /\ Moves(r)) => pc'[r] # "done"
        /\ (pc[r] = "m_commit" /\ Moves(r)) =>
            LET recs == {a \in attendance :
                            a.employee_id = req[r].id /\ a.date = req[r].date}
            IN /\ result'[r].code = 201
               /\ employees' = employees
               /\ IF recs # {}
                     THEN \E a \in recs :
                            /\ attendance' = (attendance \ {a}) \cup
                                 {[a EXCEPT !.status = req[r].status,
                                            !.created_at = createdAt[r]]}
                            /\ result'[r].id = a.id
                            /\ Cardinality(attendance') = Cardinality(attendance)
                     ELSE \E row \in attendance' :
                            /\ row \notin attendance
                            /\ attendance' = attendance \cup {row}
                            /\ row = AttendanceRow(result'[r].id, req[r], createdAt[r])
                            /\ \A a \in attendance : a.id # row.id
                            /\ \A e \in employees : e.id # row.id
                            /\ Cardinality(attendance') = Cardinality(attendance) + 1
      ]_vars

\* C2 witness: Present then Absent marked for the same (E, D): both answered with
\* the same id, one record for (E, D), Absent.
C2_Witness ==
    \E r1, r2 \in Req :
        /\ r1 # r2
        /\ pc[r1] = "done" /\ pc[r2] = "done"
        /\ req[r1].kind = "mark_attendance" /\ req[r2].kind = "mark_attendance"
        /\ req[r1].id = req[r2].id /\ req[r1].date = req[r2].date
        /\ req[r1].status = "Present" /\ req[r2].status = "Absent"
        /\ result[r1].code = 201 /\ result[r2].code = 201
        /\ result[r1].id = result[r2].id
        /\ \E a \in attendance :
            /\ SelectAttendanceByKey(attendance, req[r1].id, req[r1].date) = {a}
            /\ a.id = result[r1].id
            /\ a.status = "Absent"

\* C3: the only step of a delete_employee request for E that changes the
\* committed tables is its commit, which removes E and every attendance record
\* of E at once and nothing else; the attendance list filtered by E is then empty.
C3_DeleteEmployeeAtomic ==
    [][\A r \in Req :
        (req'[r].kind = "delete_employee" /\ Moves(r)) =>
            IF pc'[r] = "done" /\ result'[r].code = 204
               THEN /\ employees' = {e \in employees : e.id # req[r].id}
                    /\ attendance' = {a \in attendance : a.employee_id # req[r].id}
                    /\ GetAttendance(attendance', req[r].id, "") = {}
               ELSE employees' = employees /\ attendance' = attendance
      ]_vars

\* C3 witness: E had attendance marked and was deleted: E and its records are gone.
C3_Witness ==
    \E d, m \in Req :
        /\ pc[d] = "done" /\ req[d].kind = "delete_employee" /\ result[d].code = 204
        /\ pc[m] = "done" /\ req[m].kind = "mark_attendance" /\ result[m].code = 201
        /\ req[m].id = req[d].id
        /\ SelectEmployeeById(employees, req[d].id) = {}
        /\ GetAttendance(attendance, req[d].id, "") = {}

\* C4: in every reachable state no two employees share an employee_id, no two
\* have emails equal ignoring letter case, and every stored email is lower-case.
C4_EmployeeKeysUnique ==
    /\ \A a, b \in employees :
          a # b => /\ a.employee_id # b.employee_id
                   /\ ~EqualIgnoringCase(a.email, b.email)
    /\ \A e \in employees : e.email = PyLower(e.email)

\* C4 witness: two employees are stored and a third create was turned down.
C4_Witness ==
    /\ Cardinality(employees) = 2
    /\ \E r \in Req :
        /\ pc[r] = "done"
        /\ req[r].kind = "create_employee"
        /\ result[r].code \in {400, 500}

\* C5: in every reachable state every attendance record's employee_id is the id
\* of an employee that exists.
C5_NoOrphanAttendance ==
    \A a \in attendance : \E e \in employees : e.id = a.employee_id

\* C6 as stated: a create or mark whose insert meets the key another request
\* wrote after the pre-check fails with a client (conflict) error.
C6_RaceLoserGetsClientError ==
    [][\A r \in Req :
        (/\ pc[r] \in {"c_insert", "m_write"}
         /\ pc'[r] = "done") => result'[r].code \in {400, 409}
      ]_vars

\* The insert of r meets a committed row with its key.
KeyTaken(r) ==
    \/ /\ pc[r] = "c_insert"
       /\ \E e \in employees :
            \/ e.employee_id = req[r].employee_id
            \/ EqualIgnoringCase(e.email, req[r].email)
    \/ /\ pc[r] = "m_write"
       /\ existing[r] = {}
       /\ \E a \in attendance : a.employee_id = req[r].id /\ a.date = req[r].date

\* C6 amended: the request whose insert went through commits and is answered
\* 201 with its row stored; the insert that meets the key another request wrote
\* after the pre-check fails with a store error no handler catches: the request
\* is answered 500, writes nothing, and the row of the winner stays as it is.
C6_RaceLoserGetsServerError ==
    [][\A r \in Req :
        /\ (pc[r] = "c_commit" /\ Moves(r)) =>
            /\ result'[r].code = 201
            /\ \E e \in employees' :
                 e.id = result'[r].id /\ e.employee_id = req[r].employee_id
        /\ (pc[r] = "m_commit" /\ existing[r] = {} /\ Moves(r)) =>
            /\ result'[r].code = 201
            /\ \E a \in attendance' :
                 a.id = result'[r].id /\ a.employee_id = req[r].id /\ a.date = req[r].date
        /\ (KeyTaken(r) /\ Moves(r)) =>
            /\ pc'[r] = "done"
            /\ result'[r].code = 500
            /\ result'[r].detail \in {"UNIQUE constraint failed: employees",
                                      "UNIQUE constraint failed: attendance",
                                      "database is locked"}
            /\ employees' = employees
            /\ attendance' = attendance
            /\ txEmployees' = txEmployees
            /\ txAttendance' = txAttendance
      ]_vars

\* C6 witness: two creates with one employee_id both passed the pre-checks; one
\* was answered 201 and its row is stored, the other 500.
C6_Witness ==
    \E w, l \in Req :
        /\ pc[w] = "done" /\ pc[l] = "done"
        /\ req[w].kind = "create_employee" /\ req[l].kind = "create_employee"
        /\ req[w].employee_id = req[l].employee_id
        /\ result[w].code = 201
        /\ result[l] = [code |-> 500, detail |-> "UNIQUE constraint failed: employees",
                        id |-> 0]
        /\ \E e \in employees : e.id = result[w].id

\* C7: a create whose employee_id is taken is answered 400 naming the Employee
\* ID, whatever its email; one whose employee_id is free and whose email equals a
\* stored one ignoring letter case is answered 400 naming the email; both leave
\* the tables as they are.
C7_CreateConflictNamed ==
    [][\A r \in Req :
        /\ (/\ pc[r] = "idle" /\ Moves(r)
            /\ req'[r].kind = "create_employee"
            /\ \E e \in employees : e.employee_id = req'[r].employee_id)
           => /\ pc'[r] = "done"
              /\ result'[r] = [code |-> 400, id |-> 0,
                    detail |-> "An employee with this Employee ID already exists"]
              /\ employees' = employees /\ attendance' = attendance
        /\ (/\ pc[r] = "c_email" /\ Moves(r)
            /\ \E e \in employees : EqualIgnoringCase(e.email, req[r].email))
           => /\ pc'[r] = "done"
              /\ result'[r] = [code |-> 400, id |-> 0,
                    detail |-> "An employee with this email already exists"]
              /\ employees' = employees /\ attendance' = attendance
      ]_vars

\* C8: a mark whose employee_id names no employee when it is checked is answered
\* 404, its connection closed, and no table changes.
C8_MarkUnknownEmployee ==
    [][\A r \in Req :
        (/\ pc[r] = "idle" /\ Moves(r)
         /\ req'[r].kind = "mark_attendance"
         /\ \A e \in employees : e.id # req'[r].id)
        => /\ pc'[r] = "done"
           /\ result'[r] = [code |-> 404, detail |-> "Employee not found", id |-> 0]
           /\ ~connOpen'[r]
           /\ attendance' = attendance /\ employees' = employees
           /\ txAttendance' = txAttendance /\ txEmployees' = txEmployees
      ]_vars

\* C8 witness: with an employee and a record stored, a mark was answered 404.
C8_Witness ==
    /\ employees # {}
    /\ attendance # {}
    /\ \E r \in Req :
        /\ pc[r] = "done"
        /\ req[r].kind = "mark_attendance"
        /\ result[r].code = 404

\* C9: in every reachable state the dashboard's total_present is the sum of
\* present_days over the employee list, and total_absent the sum of absent_days.
C9_DashboardTotalsMatchList ==
    LET stats == GetDashboardStats(employees, attendance, "2024-01-15")
        rows == GetEmployees(employees, attendance)
    IN /\ stats.total_present = SumDays(rows, "present_days")
       /\ stats.total_absent = SumDays(rows, "absent_days")

\* C10: a request that has completed has closed its connection.
C10_ConnectionClosedOnCompletion ==
    \A r \in Req : pc[r] = "done" => ~connOpen[r]

====
